---- MODULE Spec2Model ----
(***************************************************************************)
(* Model of src/python/netmiko_executor.py: the command line driver main(), *)
(* the validator validate_device_config() and the orchestrator              *)
(* execute_netmiko_commands().                                              *)
(*                                                                          *)
(* Python strings are TLA+ strings (Len, SubSeq and \o act on them).        *)
(* A JSON value is a record [type |-> ..]; a JSON object carries its        *)
(* members as a TLA+ record, so "k in d" is k \in DOMAIN d.members.         *)
(* Optional values (None) are the empty sequence, a present value v is <<v>>.*)
(*                                                                          *)
(* The session provider (netmiko) and the file system are the environment:  *)
(* every call into the provider either returns or raises, chosen            *)
(* nondeterministically; the request file keeps one content for the whole   *)
(* run (both reads of it see the same file).                                *)
(***************************************************************************)
EXTENDS Integers, Sequences, FiniteSets, TLC

(* ---------------------------- bounds ---------------------------------- *)

\* longest command list of a request document
MaxCmds == 2

(* ----------------------- the input universe --------------------------- *)

ConfigPath == "req.json"
OutputPath == "out.json"

\* command strings a request may carry: blank, read-only, configuration with
\* the short prefix (padded) and with the long one, and a near miss in case
CommandTexts == {"  ", "show version", " config t ", "configure terminal", "Config"}

\* what the device answers to a command
Responses == {"r1", "r2"}

\* what the device answers to the save
SaveResponses == {"saved"}

\* str(e) of an exception raised by the environment
Details == {"e1"}

\* values a device descriptor may carry per field
FieldValues ==
    [device_type |-> {"cisco_ios", "windows"},
     host        |-> {"", "h"},
     username    |-> {"u"},
     password    |-> {"p"}]

FieldTexts == {"cisco_ios", "windows", "", "h", "u", "p"}

(* --------------------------- exceptions ------------------------------- *)

AuthExc    == "NetMikoAuthenticationException"
TimeoutExc == "NetMikoTimeoutException"
AnyExc     == "Exception"

\* exceptions the session provider raises from ConnectHandler(...)
OpenFaults == {AuthExc, TimeoutExc, "ValueError"}

\* exceptions the session provider raises from an open session
SessionFaults == {TimeoutExc, "ReadTimeout"}

\* exceptions open(output_file, 'w') / json.dump raise
WriteFaults == {"FileNotFoundError", "PermissionError"}

\* str(e) of an OSError raised for path
WriteDetail(cls, path) ==
    IF cls = "FileNotFoundError"
    THEN "[Errno 2] No such file or directory: '" \o path \o "'"
    ELSE "[Errno 13] Permission denied: '" \o path \o "'"

\* sys.exit(code) raises SystemExit, which derives from BaseException only
ExitExc == "SystemExit"

\* variant: a bare except, which also catches SystemExit
Catches_Bare(handler, cls) == handler = AnyExc \/ handler = cls

\* isinstance(e, handler): every class modelled here but SystemExit derives
\* from Exception
Catches(handler, cls) == (handler = AnyExc /\ cls # ExitExc) \/ handler = cls

\* index of the first except clause that catches cls, 0 when none does
FirstMatch(clauses, cls) ==
    IF \E i \in 1..Len(clauses) : Catches(clauses[i], cls)
    THEN CHOOSE i \in 1..Len(clauses) :
            /\ Catches(clauses[i], cls)
            /\ \A j \in 1..(i - 1) : ~Catches(clauses[j], cls)
    ELSE 0

\* except clauses of the try around the session (lines 91, 95, 99)
InnerClauses == <<AuthExc, TimeoutExc, AnyExc>>

\* except clauses of the try around the orchestrator (lines 113, 123, 133)
OuterClauses == <<"FileNotFoundError", "JSONDecodeError", AnyExc>>

\* except clause of the try in main (line 204)
MainClauses == <<AnyExc>>

\* where control goes when cls is raised inside region
RECURSIVE Propagate(_, _)
Propagate(region, cls) ==
    CASE region = "inner" ->
            IF FirstMatch(InnerClauses, cls) > 0 THEN "inner_except"
            ELSE Propagate("outer", cls)
      [] region = "outer" ->
            IF FirstMatch(OuterClauses, cls) > 0 THEN "outer_except"
            ELSE Propagate("main", cls)
      [] region = "main" ->
            IF FirstMatch(MainClauses, cls) > 0 THEN "main_except"
            ELSE Propagate("top", cls)
      [] OTHER -> IF cls = ExitExc THEN "exit" ELSE "uncaught"

(* ----------------------------- strings -------------------------------- *)

Whitespace == {" ", "\t", "\n", "\r"}

RECURSIVE lstrip(_)
lstrip(s) ==
    IF Len(s) > 0 /\ SubSeq(s, 1, 1) \in Whitespace
    THEN lstrip(SubSeq(s, 2, Len(s)))
    ELSE s

RECURSIVE rstrip(_)
rstrip(s) ==
    IF Len(s) > 0 /\ SubSeq(s, Len(s), Len(s)) \in Whitespace
    THEN rstrip(SubSeq(s, 1, Len(s) - 1))
    ELSE s

\* str.strip()
strip(s) == rstrip(lstrip(s))

\* str.startswith(prefix)
startswith(s, prefix) ==
    Len(s) >= Len(prefix) /\ SubSeq(s, 1, Len(prefix)) = prefix

\* str * n
RECURSIVE repeat(_, _)
repeat(s, n) == IF n <= 0 THEN "" ELSE s \o repeat(s, n - 1)

\* sep.join(lines)
RECURSIVE join(_, _)
join(sep, lines) ==
    IF Len(lines) = 0 THEN ""
    ELSE IF Len(lines) = 1 THEN lines[1]
    ELSE lines[1] \o sep \o join(sep, Tail(lines))

\* str(n) for a small non-negative integer
Digits == <<"0", "1", "2", "3", "4", "5", "6", "7", "8", "9">>

RECURSIVE str(_)
str(n) == IF n < 10 THEN Digits[n + 1] ELSE str(n \div 10) \o Digits[(n % 10) + 1]

(* ------------------------ request documents --------------------------- *)

\* required_fields (line 153)
required_fields == <<"device_type", "host", "username", "password">>

\* supported_types (lines 160-164)
supported_types ==
    <<"cisco_ios", "cisco_xe", "cisco_nxos", "cisco_asa",
      "arista_eos", "juniper_junos", "hp_comware", "huawei",
      "fortinet", "paloalto_panos", "linux">>

Range(f) == {f[i] : i \in DOMAIN f}

\* device descriptors: any subset of the required fields, each with one of
\* its values; and a JSON value that is no container
DeviceObjects ==
    {[type |-> "object", members |-> g] :
        g \in UNION {{h \in [D -> FieldTexts] : \A k \in D : h[k] \in FieldValues[k]} :
                        D \in SUBSET Range(required_fields)}}

DeviceValues == DeviceObjects \cup {[type |-> "number"]}

CommandLists == UNION {[1..n -> CommandTexts] : n \in 0..MaxCmds}

\* the members of a request object; each argument is <<>> or <<value>>
Members(dev, cmds, flag) ==
    [k \in ({"device" : i \in DOMAIN dev} \cup {"commands" : i \in DOMAIN cmds}
            \cup {"test_only" : i \in DOMAIN flag}) |->
        CASE k = "device" -> dev[1]
          [] k = "commands" -> cmds[1]
          [] OTHER -> flag[1]]

Optional(S) == {<<>>} \cup {<<v>> : v \in S}

RequestDocs ==
    {[type |-> "array"]} \cup
    {[type |-> "object", members |-> Members(dev, cmds, flag)] :
        dev \in Optional(DeviceValues), cmds \in Optional(CommandLists),
        flag \in Optional(BOOLEAN)}

\* what the path of the request file holds
FileStates ==
    {[state |-> "missing"], [state |-> "unreadable"], [state |-> "malformed"]}
    \cup {[state |-> "json", doc |-> d] : d \in RequestDocs}

\* with open(config_file, 'r') as f: config = json.load(f)
ReadConfig(file, path) ==
    CASE file.state = "missing" ->
            [raised |-> TRUE, cls |-> "FileNotFoundError",
             detail |-> "[Errno 2] No such file or directory: '" \o path \o "'"]
      [] file.state = "unreadable" ->
            [raised |-> TRUE, cls |-> "PermissionError",
             detail |-> "[Errno 13] Permission denied: '" \o path \o "'"]
      [] file.state = "malformed" ->
            [raised |-> TRUE, cls |-> "JSONDecodeError",
             detail |-> "Expecting value: line 1 column 1 (char 0)"]
      [] OTHER -> [raised |-> FALSE, value |-> file.doc]

\* dict.get(key, default)
Get(d, key, default) == IF key \in DOMAIN d THEN d[key] ELSE default

EmptyDict == [type |-> "object", members |-> [k \in {} |-> ""]]

(* ---------------------------- validator ------------------------------- *)

\* the required fields absent from the descriptor, as indices
MissingFields(device) ==
    {i \in DOMAIN required_fields : required_fields[i] \notin DOMAIN device.members}

Min(S) == CHOOSE m \in S : \A n \in S : m <= n

\* variant: the device type is looked at before the required fields
validate_device_config_TypeFirst(device) ==
    IF /\ "device_type" \in DOMAIN device.members
       /\ device.members["device_type"] \notin Range(supported_types)
    THEN <<FALSE, "Unsupported device type: " \o device.members["device_type"]>>
    ELSE IF MissingFields(device) # {}
    THEN <<FALSE, "Missing required field: " \o required_fields[Min(MissingFields(device))]>>
    ELSE <<TRUE, "">>

\* validate_device_config(device_config) for a descriptor that is a mapping
validate_device_config(device) ==
    IF MissingFields(device) # {}
    THEN <<FALSE, "Missing required field: " \o required_fields[Min(MissingFields(device))]>>
    ELSE IF device.members["device_type"] \notin Range(supported_types)
    THEN <<FALSE, "Unsupported device type: " \o device.members["device_type"]>>
    ELSE <<TRUE, "">>

(* ------------------------------ state --------------------------------- *)

VARIABLES
    argv,           \* sys.argv[1:]
    fs,             \* the request file
    pc,             \* position in the program
    exc,            \* the exception being handled
    is_valid,       \* main: validator verdict
    error_msg,      \* main: validator reason
    config,         \* parsed request document
    device_config,  \* config['device']
    commands,       \* config['commands']
    test_only,      \* config.get('test_only', False)
    result,         \* orchestrator: the result dict
    output_lines,   \* orchestrator: the output log
    idx,            \* orchestrator: position of the for loop
    calls,          \* calls made to the session provider, in order
    returned,       \* value returned by execute_netmiko_commands
    stdout,         \* what was printed
    outfile,        \* content of the output file
    exit_code       \* process exit status

vars == <<argv, fs, pc, exc, is_valid, error_msg, config, device_config,
          commands, test_only, result, output_lines, idx, calls, returned,
          stdout, outfile, exit_code>>

Unbound == [type |-> "unbound"]
NoExc == [cls |-> "", detail |-> ""]
NoResult == [unbound |-> TRUE]
Running == -1

\* datetime.now().isoformat()
Now == "2024-01-01T00:00:00"

Init ==
    /\ argv \in {<<>>, <<ConfigPath>>, <<ConfigPath, OutputPath>>}
    /\ fs \in FileStates
    /\ pc = "main"
    /\ exc = NoExc
    /\ is_valid = FALSE
    /\ error_msg = ""
    /\ config = Unbound
    /\ device_config = Unbound
    /\ commands = <<>>
    /\ test_only = FALSE
    /\ result = NoResult
    /\ output_lines = <<>>
    /\ idx = 0
    /\ calls = <<>>
    /\ returned = <<>>
    /\ stdout = <<>>
    /\ outfile = <<>>
    /\ exit_code = Running

\* raise an exception of class cls inside the try region
Raise(region, cls, detail) ==
    /\ exc' = [cls |-> cls, detail |-> detail]
    /\ pc' = Propagate(region, cls)

\* sys.exit(code)
Exit(region, code) ==
    /\ exit_code' = code
    /\ exc' = [cls |-> ExitExc, detail |-> str(code)]
    /\ pc' = Propagate(region, ExitExc)

\* the failure document built by the handlers outside the session
ErrorResult(message) ==
    [success |-> FALSE, message |-> message, output |-> "", timestamp |-> Now]

(* ------------------------------ main ---------------------------------- *)

\* lines 173-178: argument check
MainArgs ==
    /\ pc = "main"
    /\ IF Len(argv) < 1
       THEN /\ stdout' = Append(stdout, [text |-> "Usage: python3 netmiko_executor.py <config_file> [output_file]"])
            /\ Exit("top", 1)
       ELSE /\ pc' = "main_load"
            /\ UNCHANGED <<stdout, exit_code, exc>>
    /\ UNCHANGED <<argv, fs, is_valid, error_msg, config, device_config,
                   commands, test_only, result, output_lines, idx, calls,
                   returned, outfile>>

\* lines 182-183: load the request document
MainLoad ==
    /\ pc = "main_load"
    /\ LET r == ReadConfig(fs, argv[1]) IN
       IF r.raised
       THEN /\ Raise("main", r.cls, r.detail)
            /\ UNCHANGED config
       ELSE /\ config' = r.value
            /\ pc' = "main_validate"
            /\ UNCHANGED exc
    /\ UNCHANGED <<argv, fs, is_valid, error_msg, device_config, commands,
                   test_only, result, output_lines, idx, calls, returned,
                   stdout, outfile, exit_code>>

\* lines 185-186: config.get('device', {}) and the validator
MainValidate ==
    /\ pc = "main_validate"
    /\ IF config.type # "object"
       THEN /\ Raise("main", "AttributeError", "'list' object has no attribute 'get'")
            /\ UNCHANGED <<device_config, is_valid, error_msg>>
       ELSE LET d == Get(config.members, "device", EmptyDict) IN
            /\ device_config' = d
            /\ IF d.type # "object"
               THEN /\ Raise("main", "TypeError", "argument of type 'int' is not iterable")
                    /\ UNCHANGED <<is_valid, error_msg>>
               ELSE /\ is_valid' = validate_device_config(d)[1]
                    /\ error_msg' = validate_device_config(d)[2]
                    /\ pc' = "main_check"
                    /\ UNCHANGED exc
    /\ UNCHANGED <<argv, fs, config, commands, test_only, result,
                   output_lines, idx, calls, returned, stdout, outfile,
                   exit_code>>

\* variant: the verdict of the validator is ignored
MainCheck_NoGate ==
    /\ pc = "main_check"
    /\ pc' = "exec_load"
    /\ UNCHANGED <<argv, fs, exc, is_valid, error_msg, config, device_config,
                   commands, test_only, result, output_lines, idx, calls,
                   returned, stdout, outfile, exit_code>>

\* lines 188-199: reject an invalid descriptor, else call the orchestrator
MainCheck ==
    /\ pc = "main_check"
    /\ IF ~is_valid
       THEN /\ stdout' = Append(stdout, ErrorResult("Invalid device configuration: " \o error_msg))
            /\ Exit("main", 1)
       ELSE /\ pc' = "exec_load"
            /\ UNCHANGED <<stdout, exit_code, exc>>
    /\ UNCHANGED <<argv, fs, is_valid, error_msg, config, device_config,
                   commands, test_only, result, output_lines, idx, calls,
                   returned, outfile>>

\* variant: the exit code does not look at the returned result
MainExit_AlwaysZero ==
    /\ pc = "main_exit"
    /\ exit_code' = 0
    /\ exc' = [cls |-> ExitExc, detail |-> "0"]
    /\ pc' = "exit"
    /\ UNCHANGED <<argv, fs, is_valid, error_msg, config, device_config,
                   commands, test_only, result, output_lines, idx, calls,
                   returned, stdout, outfile>>

\* line 202: exit with the code of the returned result
MainExit ==
    /\ pc = "main_exit"
    /\ Exit("main", IF returned[1].success THEN 0 ELSE 1)
    /\ UNCHANGED <<argv, fs, is_valid, error_msg, config, device_config,
                   commands, test_only, result, output_lines, idx, calls,
                   returned, stdout, outfile>>

\* lines 204-212: the catch-all of main
MainExcept ==
    /\ pc = "main_except"
    /\ stdout' = Append(stdout, ErrorResult("Script execution error: " \o exc.detail))
    /\ exit_code' = 1
    /\ pc' = "exit"
    /\ UNCHANGED <<argv, fs, exc, is_valid, error_msg, config, device_config,
                   commands, test_only, result, output_lines, idx, calls,
                   returned, outfile>>

(* --------------------------- orchestrator ----------------------------- *)

\* variant: only the longer prefix selects the configuration dispatch
IsConfigCommand_ConfigureOnly(command) == startswith(strip(command), "configure")

\* line 66: the classification that selects the dispatch
IsConfigCommand(command) ==
    startswith(strip(command), "configure") \/ startswith(strip(command), "config")

\* variant: only the longer prefix decides the save
MadeChanges_ConfigureOnly(cmds) ==
    \E i \in DOMAIN cmds : startswith(strip(cmds[i]), "configure")

\* line 78: the classification that decides the save
MadeChanges(cmds) ==
    \E i \in DOMAIN cmds :
        \E prefix \in {"configure", "config"} : startswith(strip(cmds[i]), prefix)

\* a call to the session provider and the exception it raised, if any
Call(op, args, kwargs, error) ==
    [op |-> op, args |-> args, kwargs |-> kwargs,
     raised |-> (error.cls # ""), error |-> error, value |-> ""]

\* the call, with the text the provider returned from it
Returns(call, value) == [call EXCEPT !.value = value]

NoKwargs == [k \in {} |-> ""]

\* variant: the messages of the first two except clauses exchanged
InnerMessage_Swapped(e) ==
    CASE FirstMatch(InnerClauses, e.cls) = 1 -> "Connection timeout: " \o e.detail
      [] FirstMatch(InnerClauses, e.cls) = 2 -> "Authentication failed: " \o e.detail
      [] OTHER -> "Device connection error: " \o e.detail

\* lines 91-101: the message chosen by the except clause that catches e
InnerMessage(e) ==
    CASE FirstMatch(InnerClauses, e.cls) = 1 -> "Authentication failed: " \o e.detail
      [] FirstMatch(InnerClauses, e.cls) = 2 -> "Connection timeout: " \o e.detail
      [] OTHER -> "Device connection error: " \o e.detail

\* lines 113-141: the message chosen by the except clause that catches e
OuterMessage(e, config_file) ==
    CASE FirstMatch(OuterClauses, e.cls) = 1 -> "Configuration file not found: " \o config_file
      [] FirstMatch(OuterClauses, e.cls) = 2 -> "Invalid JSON in configuration file: " \o e.detail
      [] OTHER -> "Unexpected error: " \o e.detail

\* lines 31-32: load the request document again
ExecLoad ==
    /\ pc = "exec_load"
    /\ LET r == ReadConfig(fs, argv[1]) IN
       IF r.raised
       THEN /\ Raise("outer", r.cls, r.detail)
            /\ UNCHANGED config
       ELSE /\ config' = r.value
            /\ pc' = "exec_unpack"
            /\ UNCHANGED exc
    /\ UNCHANGED <<argv, fs, is_valid, error_msg, device_config, commands,
                   test_only, result, output_lines, idx, calls, returned,
                   stdout, outfile, exit_code>>

\* lines 34-47: unpack the request and build the initial result
ExecUnpack ==
    /\ pc = "exec_unpack"
    /\ IF config.type # "object"
       THEN /\ Raise("outer", "TypeError", "list indices must be integers or slices, not str")
            /\ UNCHANGED <<device_config, commands, test_only, result>>
       ELSE IF "device" \notin DOMAIN config.members
       THEN /\ Raise("outer", "KeyError", "'device'")
            /\ UNCHANGED <<device_config, commands, test_only, result>>
       ELSE IF "commands" \notin DOMAIN config.members
       THEN /\ Raise("outer", "KeyError", "'commands'")
            /\ device_config' = config.members["device"]
            /\ UNCHANGED <<commands, test_only, result>>
       ELSE /\ device_config' = config.members["device"]
            /\ commands' = config.members["commands"]
            /\ test_only' = Get(config.members, "test_only", FALSE)
            /\ IF device_config'.type # "object"
               THEN /\ Raise("outer", "AttributeError", "'int' object has no attribute 'get'")
                    /\ UNCHANGED result
               ELSE /\ result' = [success |-> FALSE, message |-> "", output |-> "",
                                  timestamp |-> Now,
                                  device_host |-> Get(device_config'.members, "host", "unknown")]
                    /\ IF "host" \notin DOMAIN device_config'.members
                       THEN Raise("outer", "KeyError", "'host'")
                       ELSE pc' = "connect" /\ UNCHANGED exc
    /\ UNCHANGED <<argv, fs, is_valid, error_msg, config, output_lines, idx,
                   calls, returned, stdout, outfile, exit_code>>

\* line 50: open the session
Connect ==
    /\ pc = "connect"
    /\ \/ /\ calls' = Append(calls, Call("ConnectHandler", <<>>, device_config.members, NoExc))
          /\ pc' = "connected"
          /\ UNCHANGED exc
       \/ \E cls \in OpenFaults, d \in Details :
            /\ calls' = Append(calls, Call("ConnectHandler", <<>>, device_config.members, [cls |-> cls, detail |-> d]))
            /\ Raise("inner", cls, d)
    /\ UNCHANGED <<argv, fs, is_valid, error_msg, config, device_config,
                   commands, test_only, result, output_lines, idx, returned,
                   stdout, outfile, exit_code>>

\* lines 53-60: connectivity test, or start of the command loop
TestOrRun ==
    /\ pc = "connected"
    /\ IF test_only
       THEN /\ result' = [result EXCEPT !.success = TRUE,
                                        !.message = "Connection test successful",
                                        !.output = "Connection established successfully"]
            /\ pc' = "disconnect"
            /\ UNCHANGED <<output_lines, idx>>
       ELSE /\ output_lines' = <<>>
            /\ idx' = 1
            /\ pc' = "loop"
            /\ UNCHANGED result
    /\ UNCHANGED <<argv, fs, exc, is_valid, error_msg, config, device_config,
                   commands, test_only, calls, returned, stdout, outfile,
                   exit_code>>

\* lines 62-63: a blank command is passed over
LoopSkip ==
    /\ pc = "loop"
    /\ idx <= Len(commands)
    /\ strip(commands[idx]) = ""
    /\ idx' = idx + 1
    /\ UNCHANGED <<argv, fs, pc, exc, is_valid, error_msg, config,
                   device_config, commands, test_only, result, output_lines,
                   calls, returned, stdout, outfile, exit_code>>

\* variant: the response is logged before the line naming the command
LogLines_ResponseFirst(command, cmd_output) ==
    <<cmd_output, "Command: " \o command, repeat("-", 50)>>

\* lines 73-75: the three log lines of a dispatched command
LogLines(command, cmd_output) ==
    <<"Command: " \o command, cmd_output, repeat("-", 50)>>

\* lines 66-68, 73-75: dispatch of a configuration command
SendConfigSet ==
    /\ pc = "loop"
    /\ idx <= Len(commands)
    /\ strip(commands[idx]) # ""
    /\ IsConfigCommand(commands[idx])
    /\ \/ \E cmd_output \in Responses :
            /\ calls' = Append(calls, Returns(Call("send_config_set", <<<<commands[idx]>>>>, NoKwargs, NoExc), cmd_output))
            /\ output_lines' = output_lines \o LogLines(commands[idx], cmd_output)
            /\ idx' = idx + 1
            /\ UNCHANGED <<pc, exc>>
       \/ \E cls \in SessionFaults, d \in Details :
            /\ calls' = Append(calls, Call("send_config_set", <<<<commands[idx]>>>>, NoKwargs, [cls |-> cls, detail |-> d]))
            /\ Raise("inner", cls, d)
            /\ UNCHANGED <<output_lines, idx>>
    /\ UNCHANGED <<argv, fs, is_valid, error_msg, config, device_config,
                   commands, test_only, result, returned, stdout, outfile,
                   exit_code>>

\* variant: a read-only command that fails is sent again
SendCommand_Retries ==
    /\ pc = "loop"
    /\ idx <= Len(commands)
    /\ strip(commands[idx]) # ""
    /\ ~IsConfigCommand(commands[idx])
    /\ Len(calls) < 2 * (Len(commands) + 1)
    /\ \/ \E cmd_output \in Responses :
            /\ calls' = Append(calls, Returns(Call("send_command", <<commands[idx]>>, NoKwargs, NoExc), cmd_output))
            /\ output_lines' = output_lines \o LogLines(commands[idx], cmd_output)
            /\ idx' = idx + 1
       \/ \E cls \in SessionFaults, d \in Details :
            /\ calls' = Append(calls, Call("send_command", <<commands[idx]>>, NoKwargs, [cls |-> cls, detail |-> d]))
            /\ UNCHANGED <<output_lines, idx>>
    /\ UNCHANGED <<argv, fs, pc, exc, is_valid, error_msg, config,
                   device_config, commands, test_only, result, returned,
                   stdout, outfile, exit_code>>

\* lines 69-75: dispatch of a read-only command
SendCommand ==
    /\ pc = "loop"
    /\ idx <= Len(commands)
    /\ strip(commands[idx]) # ""
    /\ ~IsConfigCommand(commands[idx])
    /\ \/ \E cmd_output \in Responses :
            /\ calls' = Append(calls, Returns(Call("send_command", <<commands[idx]>>, NoKwargs, NoExc), cmd_output))
            /\ output_lines' = output_lines \o LogLines(commands[idx], cmd_output)
            /\ idx' = idx + 1
            /\ UNCHANGED <<pc, exc>>
       \/ \E cls \in SessionFaults, d \in Details :
            /\ calls' = Append(calls, Call("send_command", <<commands[idx]>>, NoKwargs, [cls |-> cls, detail |-> d]))
            /\ Raise("inner", cls, d)
            /\ UNCHANGED <<output_lines, idx>>
    /\ UNCHANGED <<argv, fs, is_valid, error_msg, config, device_config,
                   commands, test_only, result, returned, stdout, outfile,
                   exit_code>>

\* variant: a save that fails is passed over
SaveConfig_IgnoresFailure ==
    /\ pc = "loop"
    /\ idx > Len(commands)
    /\ IF MadeChanges(commands)
       THEN \/ \E save_output \in SaveResponses :
                /\ calls' = Append(calls, Returns(Call("save_config", <<>>, NoKwargs, NoExc), save_output))
                /\ output_lines' = output_lines \o <<"Configuration saved:", save_output>>
            \/ \E cls \in SessionFaults, d \in Details :
                /\ calls' = Append(calls, Call("save_config", <<>>, NoKwargs, [cls |-> cls, detail |-> d]))
                /\ UNCHANGED output_lines
       ELSE UNCHANGED <<calls, output_lines>>
    /\ pc' = "finish"
    /\ UNCHANGED <<argv, fs, exc, is_valid, error_msg, config, device_config,
                   commands, test_only, result, idx, returned, stdout,
                   outfile, exit_code>>

\* lines 78-81: after the loop, save when the batch changed the configuration
SaveConfig ==
    /\ pc = "loop"
    /\ idx > Len(commands)
    /\ IF MadeChanges(commands)
       THEN \/ \E save_output \in SaveResponses :
                /\ calls' = Append(calls, Returns(Call("save_config", <<>>, NoKwargs, NoExc), save_output))
                /\ output_lines' = output_lines \o <<"Configuration saved:", save_output>>
                /\ pc' = "finish"
                /\ UNCHANGED exc
            \/ \E cls \in SessionFaults, d \in Details :
                /\ calls' = Append(calls, Call("save_config", <<>>, NoKwargs, [cls |-> cls, detail |-> d]))
                /\ Raise("inner", cls, d)
                /\ UNCHANGED output_lines
       ELSE /\ pc' = "finish"
            /\ UNCHANGED <<calls, output_lines, exc>>
    /\ UNCHANGED <<argv, fs, is_valid, error_msg, config, device_config,
                   commands, test_only, result, idx, returned, stdout,
                   outfile, exit_code>>

\* variant: the message counts the commands that were sent
Finish_CountsSent ==
    /\ pc = "finish"
    /\ result' = [result EXCEPT !.success = TRUE,
                                !.message = "Successfully executed "
                                            \o str(Len(SelectSeq(commands, LAMBDA c : strip(c) # "")))
                                            \o " commands",
                                !.output = join("\n", output_lines)]
    /\ pc' = "disconnect"
    /\ UNCHANGED <<argv, fs, exc, is_valid, error_msg, config, device_config,
                   commands, test_only, output_lines, idx, calls, returned,
                   stdout, outfile, exit_code>>

\* lines 83-85: the batch succeeded
Finish ==
    /\ pc = "finish"
    /\ result' = [result EXCEPT !.success = TRUE,
                                !.message = "Successfully executed " \o str(Len(commands)) \o " commands",
                                !.output = join("\n", output_lines)]
    /\ pc' = "disconnect"
    /\ UNCHANGED <<argv, fs, exc, is_valid, error_msg, config, device_config,
                   commands, test_only, output_lines, idx, calls, returned,
                   stdout, outfile, exit_code>>

\* variant: the session is closed a second time when the first close succeeded
Disconnect_Twice ==
    /\ pc = "disconnect"
    /\ \/ /\ calls' = calls \o <<Call("disconnect", <<>>, NoKwargs, NoExc),
                                  Call("disconnect", <<>>, NoKwargs, NoExc)>>
          /\ pc' = "write"
          /\ UNCHANGED exc
       \/ \E cls \in SessionFaults, d \in Details :
            /\ calls' = Append(calls, Call("disconnect", <<>>, NoKwargs, [cls |-> cls, detail |-> d]))
            /\ Raise("inner", cls, d)
    /\ UNCHANGED <<argv, fs, is_valid, error_msg, config, device_config,
                   commands, test_only, result, output_lines, idx, returned,
                   stdout, outfile, exit_code>>

\* line 88: close the session
Disconnect ==
    /\ pc = "disconnect"
    /\ \/ /\ calls' = Append(calls, Call("disconnect", <<>>, NoKwargs, NoExc))
          /\ pc' = "write"
          /\ UNCHANGED exc
       \/ \E cls \in SessionFaults, d \in Details :
            /\ calls' = Append(calls, Call("disconnect", <<>>, NoKwargs, [cls |-> cls, detail |-> d]))
            /\ Raise("inner", cls, d)
    /\ UNCHANGED <<argv, fs, is_valid, error_msg, config, device_config,
                   commands, test_only, result, output_lines, idx, returned,
                   stdout, outfile, exit_code>>

\* variant: the handler also reports the failure text as output
ExecInnerExcept_SetsOutput ==
    /\ pc = "inner_except"
    /\ result' = [result EXCEPT !.message = InnerMessage(exc),
                                !.output = exc.detail]
    /\ pc' = "write"
    /\ UNCHANGED <<argv, fs, exc, is_valid, error_msg, config, device_config,
                   commands, test_only, output_lines, idx, calls, returned,
                   stdout, outfile, exit_code>>

\* variant: the handler returns the log gathered before the failure
ExecInnerExcept_PartialLog ==
    /\ pc = "inner_except"
    /\ result' = [result EXCEPT !.message = InnerMessage(exc),
                                !.output = join("\n", output_lines)]
    /\ pc' = "write"
    /\ UNCHANGED <<argv, fs, exc, is_valid, error_msg, config, device_config,
                   commands, test_only, output_lines, idx, calls, returned,
                   stdout, outfile, exit_code>>

\* lines 91-101: a failure inside the session try sets the message
ExecInnerExcept ==
    /\ pc = "inner_except"
    /\ result' = [result EXCEPT !.message = InnerMessage(exc)]
    /\ pc' = "write"
    /\ UNCHANGED <<argv, fs, exc, is_valid, error_msg, config, device_config,
                   commands, test_only, output_lines, idx, calls, returned,
                   stdout, outfile, exit_code>>

\* lines 104-106: write the output file when one was named
WriteOutput ==
    /\ pc = "write"
    /\ IF Len(argv) > 1
       THEN \/ /\ outfile' = <<result>>
               /\ pc' = "print"
               /\ UNCHANGED exc
            \/ \E cls \in WriteFaults :
               /\ Raise("outer", cls, WriteDetail(cls, argv[2]))
               /\ UNCHANGED outfile
       ELSE /\ pc' = "print"
            /\ UNCHANGED <<outfile, exc>>
    /\ UNCHANGED <<argv, fs, is_valid, error_msg, config, device_config,
                   commands, test_only, result, output_lines, idx, calls,
                   returned, stdout, exit_code>>

\* lines 109-111: print and return the result
PrintResult ==
    /\ pc = "print"
    /\ stdout' = Append(stdout, result)
    /\ returned' = <<result>>
    /\ pc' = "main_exit"
    /\ UNCHANGED <<argv, fs, exc, is_valid, error_msg, config, device_config,
                   commands, test_only, result, output_lines, idx, calls,
                   outfile, exit_code>>

\* lines 113-141: a failure outside the session try prints a failure document
ExecOuterExcept ==
    /\ pc = "outer_except"
    /\ stdout' = Append(stdout, ErrorResult(OuterMessage(exc, argv[1])))
    /\ returned' = <<ErrorResult(OuterMessage(exc, argv[1]))>>
    /\ pc' = "main_exit"
    /\ UNCHANGED <<argv, fs, exc, is_valid, error_msg, config, device_config,
                   commands, test_only, result, output_lines, idx, calls,
                   outfile, exit_code>>

(* -------------------------- specification ----------------------------- *)

Next ==
    \/ MainArgs
    \/ MainLoad
    \/ MainValidate
    \/ MainCheck
    \/ MainExit
    \/ MainExcept
    \/ ExecLoad
    \/ ExecUnpack
    \/ Connect
    \/ TestOrRun
    \/ LoopSkip
    \/ SendConfigSet
    \/ SendCommand
    \/ SaveConfig
    \/ Finish
    \/ Disconnect
    \/ ExecInnerExcept
    \/ WriteOutput
    \/ PrintResult
    \/ ExecOuterExcept

Spec == Init /\ [][Next]_vars

(* ------------------------ observed quantities ------------------------- *)

\* positions of the calls of one provider operation
CallsOf(op) == {i \in DOMAIN calls : calls[i].op = op}

DispatchOps == {"send_command", "send_config_set"}

Dispatches == {i \in DOMAIN calls : calls[i].op \in DispatchOps}

OpenSucceeded == \E i \in CallsOf("ConnectHandler") : ~calls[i].raised

OpenFailed == \E i \in CallsOf("ConnectHandler") : calls[i].raised

\* the orchestrator has returned
Returned == returned # <<>>

\* the result documents among what was printed
Documents == SelectSeq(stdout, LAMBDA d : "success" \in DOMAIN d)

SessionPrefixes ==
    {"Authentication failed: ", "Connection timeout: ", "Device connection error: "}

FailurePrefixes ==
    SessionPrefixes \cup
    {"Configuration file not found: ", "Invalid JSON in configuration file: ",
     "Unexpected error: "}

IsSuccessMessage(m) ==
    \/ m = "Connection test successful"
    \/ \E n \in 0..(MaxCmds + 1) : m = "Successfully executed " \o str(n) \o " commands"

IsFailureMessage(m) == \E p \in FailurePrefixes : startswith(m, p)

\* the request file holds a document whose descriptor the validator accepts
ValidRequest ==
    /\ fs.state = "json"
    /\ fs.doc.type = "object"
    /\ "device" \in DOMAIN fs.doc.members
    /\ fs.doc.members["device"].type = "object"
    /\ validate_device_config(fs.doc.members["device"])[1]

(* ------------------------------ claims -------------------------------- *)

\* C1: once the orchestrator has returned from a request whose session open
\* succeeded, disconnect was invoked exactly once, whatever the exit path.
C1_ClosedOnEveryPath ==
    (Returned /\ OpenSucceeded) => Cardinality(CallsOf("disconnect")) = 1

\* C2: a returned result is either success=true with a success message or
\* success=false with a failure message.
C2_ResultConsistent ==
    Returned =>
        \/ returned[1].success /\ IsSuccessMessage(returned[1].message)
        \/ ~returned[1].success /\ IsFailureMessage(returned[1].message)
                                /\ ~IsSuccessMessage(returned[1].message)

\* C3: a returned result whose message is of a session-related kind comes
\* from a failed open, and no command was dispatched in that request.
C3_SessionKindsOnlyFromOpen ==
    (Returned /\ \E p \in SessionPrefixes : startswith(returned[1].message, p))
        => (OpenFailed /\ Dispatches = {})

\* C4: after a failed open nothing else is asked of the provider, and the
\* result, once returned, has success=false and empty output.
C4_OpenFailureStops ==
    OpenFailed =>
        /\ Len(calls) = 1
        /\ ~result.success /\ result.output = ""
        /\ Returned => (~returned[1].success /\ returned[1].output = "")
        /\ \A i \in DOMAIN stdout : ~stdout[i].success /\ stdout[i].output = ""

C4_Witness == OpenFailed /\ pc = "exit"

\* the prefix the contract assigns to an open failure of class cls
OpenFailurePrefix(cls) ==
    IF cls = AuthExc THEN "Authentication failed: "
    ELSE IF cls = TimeoutExc THEN "Connection timeout: "
    ELSE "Device connection error: "

\* C5: once the handler of a failed open has run, the result message is the
\* prefix of the failure's kind followed by its detail, and it starts with
\* exactly one of the three prefixes.
C5_OpenFailurePrefix ==
    (OpenFailed /\ pc # "inner_except") =>
        /\ result.message = OpenFailurePrefix(calls[1].error.cls) \o calls[1].error.detail
        /\ Cardinality({p \in SessionPrefixes : startswith(result.message, p)}) = 1
        /\ \A i \in DOMAIN stdout :
              "device_host" \in DOMAIN stdout[i] => stdout[i].message = result.message

C5_Witness ==
    /\ OpenFailed
    /\ calls[1].error.cls = TimeoutExc
    /\ Len(stdout) = 1
    /\ startswith(stdout[1].message, "Connection timeout: ")

\* C6: a session open is attempted only for a request file that was found,
\* parsed and whose descriptor the validator accepted; every other request
\* ends without any open and with one success=false document.
C6_ValidatedBeforeOpen ==
    /\ calls # <<>> => (ValidRequest /\ calls[1].kwargs = fs.doc.members["device"].members)
    /\ (pc = "exit" /\ Len(argv) >= 1 /\ ~ValidRequest) =>
          /\ calls = <<>>
          /\ Len(stdout) = 1
          /\ ~stdout[1].success
          /\ exit_code = 1

C6_Witness == pc = "exit" /\ calls # <<>> /\ is_valid

\* C7: the descriptor of every attempted open has a supported device_type
\* and non-empty host, username and password.
C7_OpenedDescriptorWellFormed ==
    \A i \in CallsOf("ConnectHandler") :
        /\ calls[i].kwargs["device_type"] \in Range(supported_types)
        /\ calls[i].kwargs["host"] # ""
        /\ calls[i].kwargs["username"] # ""
        /\ calls[i].kwargs["password"] # ""

\* C8: no failure escapes; a request never has more than one result document
\* printed, and has exactly one when the process ends; the document returned
\* by the orchestrator is the one printed, and the output file, when written,
\* holds the same document.
C8_OneDocument ==
    /\ pc # "uncaught"
    /\ Len(Documents) <= 1
    /\ (pc = "exit" /\ Len(argv) >= 1) => Len(Documents) = 1
    /\ Returned => Documents = returned
    /\ (outfile # <<>> /\ Returned) => (outfile = returned \/ ~returned[1].success)

\* the session ran, then writing the output file failed
C8_Witness ==
    /\ pc = "exit"
    /\ OpenSucceeded
    /\ Len(Documents) = 1
    /\ startswith(Documents[1].message, "Unexpected error: ")

\* some step of the request failed: the file, the validation, the open, a
\* command dispatch, the save, or a fault caught at the top level
RequestFailed ==
    \/ Len(argv) < 1
    \/ ~ValidRequest
    \/ \E i \in DOMAIN calls : calls[i].raised /\ calls[i].op # "disconnect"
    \/ \E i \in DOMAIN Documents :
          \/ startswith(Documents[i].message, "Script execution error: ")
          \/ startswith(Documents[i].message, "Unexpected error: ")

C10_TestOnly ==
    (test_only /\ OpenSucceeded) =>
        /\ Dispatches = {}
        /\ CallsOf("save_config") = {}
        /\ Returned =>
              /\ result.success
              /\ result.message = "Connection test successful"
              /\ result.output = "Connection established successfully"

(* ------------------ observed quantities of the batch ------------------ *)

\* the command text a dispatch call carried
DispatchedText(call) ==
    IF call.op = "send_config_set" THEN call.args[1][1] ELSE call.args[1]

\* the dispatch calls in the order they were made
DispatchSeq == SelectSeq(calls, LAMBDA c : c.op \in DispatchOps)

DispatchedTexts == [i \in 1..Len(DispatchSeq) |-> DispatchedText(DispatchSeq[i])]

\* the command list of the request document
RequestCommands ==
    IF /\ fs.state = "json"
       /\ fs.doc.type = "object"
       /\ "commands" \in DOMAIN fs.doc.members
    THEN fs.doc.members["commands"]
    ELSE <<>>

NonBlank(cmds) == SelectSeq(cmds, LAMBDA c : strip(c) # "")

IsPrefix(a, b) == Len(a) <= Len(b) /\ SubSeq(b, 1, Len(a)) = a

Separator50 == "--------------------------------------------------"

\* the log lines the contract assigns to a sequence of answered dispatches
RECURSIVE ExpectedLines(_)
ExpectedLines(cs) ==
    IF Len(cs) = 0 THEN <<>>
    ELSE <<"Command: " \o DispatchedText(cs[1]), cs[1].value, Separator50>>
         \o ExpectedLines(Tail(cs))

\* the lines of the save block, when a save was answered
SaveBlock ==
    IF \E i \in CallsOf("save_config") : ~calls[i].raised
    THEN <<"Configuration saved:", calls[CHOOSE i \in CallsOf("save_config") : ~calls[i].raised].value>>
    ELSE <<>>

\* the orchestrator returned success=true from a run that was no test
BatchSucceeded == Returned /\ returned[1].success /\ ~test_only

\* C11: the dispatches of a run are, in order, a prefix of the non-blank
\* entries of the command list, one call per entry and nothing after a
\* failed one; while the loop runs the log holds, per answered dispatch, the
\* 'Command: ' line, the response and the separator of 50 '-'; on success
\* every non-blank entry was dispatched and the output is that log joined.
C11_DispatchOrderAndLog ==
    /\ IsPrefix(DispatchedTexts, NonBlank(RequestCommands))
    /\ \A i \in 1..(Len(DispatchSeq) - 1) : ~DispatchSeq[i].raised
    /\ Len(Separator50) = 50
    /\ pc = "loop" => output_lines = ExpectedLines(DispatchSeq)
    /\ BatchSucceeded =>
          /\ DispatchedTexts = NonBlank(RequestCommands)
          /\ returned[1].output = join("\n", ExpectedLines(DispatchSeq) \o SaveBlock)

C11_Witness ==
    /\ BatchSucceeded
    /\ Len(RequestCommands) = 2
    /\ Len(DispatchSeq) = 1
    /\ strip(RequestCommands[1]) = ""

\* the classification of the contract: Configuration when the trimmed text
\* starts with 'config'
IsConfiguration(c) == startswith(strip(c), "config")

HasConfiguration(cmds) == \E i \in DOMAIN cmds : IsConfiguration(cmds[i])

\* the command loop of a run that was no test ran to its end
LoopCompleted ==
    /\ OpenSucceeded
    /\ ~test_only
    /\ pc # "loop"
    /\ idx = Len(commands) + 1

EndsWith(s, t) == Len(s) >= Len(t) /\ SubSeq(s, Len(s) - Len(t) + 1, Len(s)) = t

\* C12: the save is issued at most once, only after the loop ran to its end
\* and after every dispatch; once the loop has ended it was issued exactly
\* when some command of the batch is Configuration; when it was answered the
\* log ends with the 'Configuration saved:' block, and so does the output of
\* a successful result.
C12_SaveIffConfiguration ==
    /\ Cardinality(CallsOf("save_config")) <= 1
    /\ pc = "loop" => CallsOf("save_config") = {}
    /\ \A i \in CallsOf("save_config") :
          /\ \A j \in Dispatches : j < i
          /\ idx = Len(commands) + 1
          /\ DispatchedTexts = NonBlank(RequestCommands)
    /\ CallsOf("save_config") # {} => HasConfiguration(RequestCommands)
    /\ LoopCompleted => (CallsOf("save_config") # {} <=> HasConfiguration(RequestCommands))
    /\ (LoopCompleted /\ SaveBlock # <<>>) =>
          /\ Len(output_lines) >= 2
          /\ SubSeq(output_lines, Len(output_lines) - 1, Len(output_lines)) = SaveBlock
    /\ (BatchSucceeded /\ HasConfiguration(RequestCommands)) =>
          /\ SaveBlock # <<>>
          /\ EndsWith(returned[1].output, "Configuration saved:\n" \o SaveBlock[2])

C12_Witness ==
    /\ BatchSucceeded
    /\ Len(DispatchSeq) = 2
    /\ DispatchSeq[1].op = "send_config_set"
    /\ DispatchSeq[2].op = "send_command"
    /\ CallsOf("save_config") = {4}

\* the success message of the contract for a list of n commands
SuccessMessage(n) == "Successfully executed " \o str(n) \o " commands"

\* C13: when the batch has succeeded the message names the length of the
\* request's command list, blank entries included; and no document, returned
\* or printed, carries a 'Successfully executed' message with another number.
C13_CountIsListLength ==
    /\ (pc = "disconnect" /\ ~test_only) =>
          result.message = SuccessMessage(Len(RequestCommands))
    /\ \A i \in DOMAIN returned :
          startswith(returned[i].message, "Successfully executed ")
             => returned[i].message = SuccessMessage(Len(RequestCommands))
    /\ \A i \in DOMAIN Documents :
          startswith(Documents[i].message, "Successfully executed ")
             => Documents[i].message = SuccessMessage(Len(RequestCommands))

C13_Witness ==
    /\ Len(Documents) = 1
    /\ Documents[1].message = "Successfully executed 2 commands"
    /\ Len(DispatchSeq) = 1

BatchOps == DispatchOps \cup {"save_config"}

\* positions of the dispatches and saves that raised
FailedBatchCalls == {i \in DOMAIN calls : calls[i].op \in BatchOps /\ calls[i].raised}

\* the message by which the orchestrator reports the exception e
ReportOf(e) ==
    IF e.cls = AuthExc THEN "Authentication failed: " \o e.detail
    ELSE IF e.cls = TimeoutExc THEN "Connection timeout: " \o e.detail
    ELSE "Device connection error: " \o e.detail

\* C14: a dispatch or save that fails is the last call made to the provider:
\* nothing is dispatched, saved or opened after it and the open was made
\* once; once its handler has run the result has success=false and a
\* message carrying the failure's text, and no printed document of the
\* request has success=true.
C14_CommandFailureTerminal ==
    \A f \in FailedBatchCalls :
        /\ f = Len(calls)
        /\ Cardinality(CallsOf("ConnectHandler")) = 1
        /\ pc # "inner_except" =>
              /\ ~result.success
              /\ result.message = ReportOf(calls[f].error)
        /\ \A i \in DOMAIN Documents :
              /\ ~Documents[i].success
              /\ "device_host" \in DOMAIN Documents[i]
                    => Documents[i].message = ReportOf(calls[f].error)
        /\ pc = "exit" => (Len(Documents) = 1 /\ exit_code = 1)

C14_Witness ==
    /\ pc = "exit"
    /\ Len(DispatchSeq) = 2
    /\ ~DispatchSeq[1].raised
    /\ DispatchSeq[2].raised
    /\ Len(Documents) = 1
    /\ "device_host" \in DOMAIN Documents[1]

\* C15: every dispatched command is non-blank; it goes out as a
\* configuration batch exactly when its trimmed text starts with 'config'
\* (case-sensitive, 'configure' included), the batch holding that one command,
\* and as a direct command otherwise; for the command the loop is at, the
\* classification of the dispatch and the one of the save agree, and they
\* agree for the batch.
C15_ClassificationAndDispatch ==
    /\ \A i \in Dispatches :
          LET c == DispatchedText(calls[i]) IN
          /\ strip(c) # ""
          /\ calls[i].op = "send_config_set" <=> IsConfiguration(c)
          /\ calls[i].op = "send_config_set" => calls[i].args = <<<<c>>>>
          /\ calls[i].op = "send_command" => calls[i].args = <<c>>
    /\ (pc = "loop" /\ idx <= Len(commands)) =>
          LET c == commands[idx] IN
          /\ commands = RequestCommands
          /\ IsConfigCommand(c) <=> MadeChanges(<<c>>)
          /\ IsConfigCommand(c) <=> IsConfiguration(c)
          /\ startswith(strip(c), "configure") => IsConfiguration(c)
    /\ LoopCompleted =>
          (CallsOf("save_config") # {} <=> CallsOf("send_config_set") # {})

C15_Witness ==
    /\ LoopCompleted
    /\ Len(DispatchSeq) = 2
    /\ DispatchSeq[1].op = "send_command"
    /\ DispatchedText(DispatchSeq[1]) = "Config"
    /\ DispatchSeq[2].op = "send_config_set"
    /\ DispatchSeq[2].args = <<<<" config t ">>>>

(* ----------------------- the validator alone -------------------------- *)

\* descriptors handed to the validator: every subset of the required fields
\* and of one extra transport parameter, every supported tag and two others
ValidatorFieldValues ==
    [device_type |-> Range(supported_types) \cup {"windows", ""},
     host        |-> {"", "h"},
     username    |-> {"u"},
     password    |-> {"p"},
     port        |-> {"22"}]

ValidatorInputs ==
    {[type |-> "object", members |-> g] :
        g \in UNION {{h \in [D -> UNION Range(ValidatorFieldValues)] :
                         \A k \in D : h[k] \in ValidatorFieldValues[k]} :
                        D \in SUBSET (DOMAIN ValidatorFieldValues)}}

\* a descriptor is about to be validated; config keeps the document it is from
InitValidator ==
    /\ device_config \in ValidatorInputs
    /\ config = [type |-> "object", members |-> [device |-> device_config]]
    /\ pc = "validate"
    /\ argv = <<ConfigPath>>
    /\ fs = [state |-> "json", doc |-> config]
    /\ exc = NoExc
    /\ is_valid = FALSE
    /\ error_msg = ""
    /\ commands = <<>>
    /\ test_only = FALSE
    /\ result = NoResult
    /\ output_lines = <<>>
    /\ idx = 0
    /\ calls = <<>>
    /\ returned = <<>>
    /\ stdout = <<>>
    /\ outfile = <<>>
    /\ exit_code = Running

\* line 186: is_valid, error_msg = validate_device_config(device_config)
ApplyValidator ==
    /\ pc = "validate"
    /\ is_valid' = validate_device_config(device_config)[1]
    /\ error_msg' = validate_device_config(device_config)[2]
    /\ pc' = "validated"
    /\ UNCHANGED <<argv, fs, exc, config, device_config, commands, test_only,
                   result, output_lines, idx, calls, returned, stdout,
                   outfile, exit_code>>

NextValidator == ApplyValidator

SpecValidator == InitValidator /\ [][NextValidator]_vars

\* the verdict of the contract, field by field
ExpectedVerdict(d) ==
    IF "device_type" \notin DOMAIN d THEN <<FALSE, "Missing required field: device_type">>
    ELSE IF "host" \notin DOMAIN d THEN <<FALSE, "Missing required field: host">>
    ELSE IF "username" \notin DOMAIN d THEN <<FALSE, "Missing required field: username">>
    ELSE IF "password" \notin DOMAIN d THEN <<FALSE, "Missing required field: password">>
    ELSE IF d["device_type"] \notin
              {"cisco_ios", "cisco_xe", "cisco_nxos", "cisco_asa", "arista_eos",
               "juniper_junos", "hp_comware", "huawei", "fortinet",
               "paloalto_panos", "linux"}
         THEN <<FALSE, "Unsupported device type: " \o d["device_type"]>>
    ELSE <<TRUE, "">>

\* C16: the validator answers (false, missing-field reason) naming the first
\* absent field in the order device_type, host, username, password; else
\* (false, unsupported-type reason) when the tag is none of the 11 supported
\* ones; else (true, ''); the descriptor is the same after the call and the
\* answer depends on nothing but the descriptor.
C16_ValidatorVerdict ==
    /\ Cardinality(Range(supported_types)) = 11
    /\ pc = "validated" =>
          /\ <<is_valid, error_msg>> = ExpectedVerdict(device_config.members)
          /\ device_config = config.members["device"]
          /\ calls = <<>> /\ stdout = <<>>

C16_Witness ==
    /\ pc = "validated"
    /\ DOMAIN device_config.members = {"device_type", "username", "password"}
    /\ device_config.members["device_type"] = "windows"
    /\ ~is_valid
    /\ error_msg = "Missing required field: host"

\* the result dict of a run that was no test records success
SuccessRecorded == "success" \in DOMAIN result /\ result.success /\ ~test_only

\* C17: success=true, recorded, returned or printed by a run that was no
\* test, means the open succeeded, the dispatches are the non-blank entries
\* of the list, each once and in order, none of them failed, and the save was
\* made once and answered when a command is Configuration (and not made
\* otherwise).
C17_SuccessMeansWholeBatch ==
    (SuccessRecorded \/ BatchSucceeded
        \/ (~test_only /\ \E i \in DOMAIN Documents : Documents[i].success)) =>
        /\ OpenSucceeded
        /\ DispatchedTexts = NonBlank(RequestCommands)
        /\ \A i \in Dispatches : ~calls[i].raised
        /\ IF HasConfiguration(RequestCommands)
           THEN /\ Cardinality(CallsOf("save_config")) = 1
                /\ \A i \in CallsOf("save_config") : ~calls[i].raised
           ELSE CallsOf("save_config") = {}

C17_Witness ==
    /\ pc = "exit"
    /\ exit_code = 0
    /\ ~test_only
    /\ Len(RequestCommands) = 2
    /\ Len(DispatchSeq) = 2
    /\ CallsOf("save_config") # {}

\* C18: a result with success=false has empty output, wherever it is held:
\* in the result dict, returned, printed or written to the output file; the
\* responses gathered before a failure are not part of it.
C18_FailureHasNoOutput ==
    /\ ("success" \in DOMAIN result /\ ~result.success) => result.output = ""
    /\ \A i \in DOMAIN returned : ~returned[i].success => returned[i].output = ""
    /\ \A i \in DOMAIN Documents : ~Documents[i].success => Documents[i].output = ""
    /\ \A i \in DOMAIN outfile : ~outfile[i].success => outfile[i].output = ""

C18_Witness ==
    /\ Returned
    /\ ~returned[1].success
    /\ Len(output_lines) = 3
    /\ FailedBatchCalls # {}
    /\ outfile = returned

\* the place of a provider operation in the life of a session
Rank(op) ==
    CASE op = "ConnectHandler" -> 0
      [] op \in DispatchOps -> 1
      [] op = "save_config" -> 2
      [] OTHER -> 3

\* C19: the provider is called in the order open, dispatches, save, close:
\* the first call is the only open, every other call follows a successful
\* open, a later call never belongs to an earlier stage, and save and close
\* are each called at most once, so nothing follows the close.
C19_SessionOrder ==
    /\ Cardinality(CallsOf("ConnectHandler")) <= 1
    /\ calls # <<>> => calls[1].op = "ConnectHandler"
    /\ Len(calls) > 1 => ~calls[1].raised
    /\ \A i, j \in DOMAIN calls : i < j => Rank(calls[i].op) <= Rank(calls[j].op)
    /\ Cardinality(CallsOf("save_config")) <= 1
    /\ Cardinality(CallsOf("disconnect")) <= 1
    /\ \A i \in CallsOf("disconnect") : i = Len(calls)

C19_Witness ==
    /\ Len(calls) = 5
    /\ calls[1].op = "ConnectHandler"
    /\ calls[2].op \in DispatchOps
    /\ calls[3].op \in DispatchOps
    /\ calls[4].op = "save_config"
    /\ calls[5].op = "disconnect"

====
